---- MODULE Spec2Model ----
(***************************************************************************)
(* TDoA field recorder (bjvt/TDoA).                                        *)
(*                                                                         *)
(*   Spec        the recording scheduler of src/nfc_recorder.1.py: main(), *)
(*               record_once(), pps_wait_assert(), the sleeps, and the     *)
(*               asynchronous SIGTERM/SIGINT handler, over a discrete      *)
(*               clock of TicksPerSec ticks per second.                    *)
(*   SpecAlign   the alignment calculator of src/data/pps_wav_alignment.py *)
(*               (find_pps_alignment and the precision ladder of           *)
(*               create_timing_report) applied to bounded inputs.          *)
(*   SpecWindow  the night-window predicates applied to bounded inputs.    *)
(*   SpecBatch   the analysis command line of pps_wav_alignment.py: main(),*)
(*               analyze_multiple_files() and the error paths of           *)
(*               create_timing_report(), over bounded directories.         *)
(*   SpecSegment the files record_once() leaves on disk, step by step,     *)
(*               with the wall clock and a concurrent reader of the        *)
(*               metadata (load_metadata).                                 *)
(*                                                                         *)
(* Time.  A step that does not block takes no time: the clock advances     *)
(* (Tick) only while the scheduler is inside a blocking call.  The signal  *)
(* handler may run between any two steps and inside any blocking call      *)
(* (the interpreter resumes an interrupted sleep/wait/read afterwards).    *)
(***************************************************************************)
EXTENDS Integers, Sequences, FiniteSets, TLC

(***************************************************************************)
(* Bounds and program constants                                            *)
(***************************************************************************)
\* clock resolution of the model: ticks per second
TicksPerSec == 2
\* REC_SEC (59*60+55 s in the source) scaled down: configured capture length, in seconds
RecSecBound == 2
\* seconds in a minute (the 60 of sleep_to_next_full_minute_utc)
MINUTE == 60
PAUSE_SEC == 5
\* timeout of the PPS wait of the ALIGN step and of record_once, in seconds
ALIGN_PPS_TIMEOUT == 10
REC_PPS_TIMEOUT == 5
\* how long after its deadline readline() can still return a line, in seconds; a
\* read still blocked then stays blocked (the PPS source has gone silent)
PpsLateSecBound == 1
RATE == 48000
BITS == 16
CHANNELS == 1

\* largest number of NFC_*.wav files in an analysed directory
MaxBatchLen == 3
\* the wall clock of SpecSegment runs over the seconds 0 .. MaxClockSec
MaxClockSec == 6
\* number of record_once() calls followed in SpecSegment
MaxSegs == 2

MinuteTicks == MINUTE * TicksPerSec
RecTicks == RecSecBound * TicksPerSec
\* sinceStop saturates one tick above one second: "more than 1 s ago"
StopCap == TicksPerSec + 1

None == "None"

VARIABLES
    \* ---- scheduler (src/nfc_recorder.1.py)
    pc,          \* position of main()
    running,     \* the global flag cleared by _sigterm
    chrony_ok,   \* main()'s chrony_ok: set by the gate, read by the `if not chrony_ok`
                 \* that follows and by nothing else; FALSE again once main() has moved on
    daemon,      \* what the chronyc invocation does (environment); None before the gate is
                 \* called and again once main() has moved on
    secs,        \* wall clock: ticks since the last full UTC minute
    localIdx,    \* wall clock: index into LocalTimes of the current local time of day
    sleepLeft,   \* ticks left of the time.sleep() in progress
    caller,      \* which call of pps_wait_assert is in progress: "align" | "record"
    waited,      \* ticks since pps_wait_assert computed its deadline
    last_ts,     \* last_ts of pps_wait_assert; after the return, the value returned,
                 \* until the caller's next step (both callers drop it)
    stamp,       \* second of the minute that names the segment's files: utc_start of
                 \* record_once, taken `waited` ticks before the capture is launched and
                 \* written here at the launch
    start_utc,   \* tick of the minute at which the capture was launched
    recElapsed,  \* ticks the capture child has been running
    child,       \* proc of record_once: "none" | "running" | "exited"
    childRc,     \* proc.returncode: {} until the child has ended, then {rc}
    alive,       \* number of capture child processes that exist and have not ended
    gapI,        \* number of completed iterations of the GAP for-loop
    lastMeta,    \* the metadata records written by the latest step: {} or {record}
    \* ---- history (observers of the run, not program state)
    stopAt,      \* Phase in which the handler cleared `running`, None before
    sinceStop,   \* ticks since the handler cleared `running`, saturating at StopCap
    \* ---- alignment calculator (src/data/pps_wav_alignment.py)
    aPc,         \* "off" | "input" | "computed" | "reported"
    aRate,       \* wav_info['sample_rate'], Hz
    aNSamples,   \* wav_info['n_samples']
    aStartUs,    \* metadata['utc_start'] as a timestamp, in microseconds
    aPpsUs,      \* metadata['pps_timing']['pps_utc_timestamp'], in microseconds
    aRes,        \* the alignment returned by find_pps_alignment: {} before, else {result}
    aRating,     \* precision_rating of create_timing_report
    \* ---- night-window predicates
    wPc,         \* "off" | "input" | "evaluated"
    wNow,        \* local time of day handed to the predicates, <<hour, minute>>
    wWindow,     \* the recording window the deployment is configured for
    wRes,        \* result of is_within_night_local
    wResHour,    \* result of is_recording_time
    \* ---- analysis command line (src/data/pps_wav_alignment.py)
    bPc,         \* "off" | "main" | "loop" | "returned" | "raised"
    cArg,        \* sys.argv[1]: "none" | "dir" | "wav" | "invalid"
    bItems,      \* the files analysed: sorted(wav_files) of the directory, or the one
                 \* .wav file named on the command line; each with its condition
    bIdx,        \* position of the for loop of analyze_multiple_files in bItems
    alignments,  \* alignments of analyze_multiple_files: positions of the items appended
    bReported,   \* positions of the items a skip or error message was printed for
    bSummary,    \* "Files Analyzed: n" of the summary: {} if not printed, else {n}
    cExit,       \* exit status of the process: {} while it runs, else {status}
    \* ---- segment files (record_once of src/nfc_recorder.1.py and its readers)
    fPc,         \* "off" | "idle" | "pps" | "capturing" | "meta_open" | "gap"
    fClock,      \* wall clock (datetime.now(timezone.utc)), in whole seconds
    fStamp,      \* second that names the files of the record_once in progress: {} or {s}
    fStartUtc,   \* start_utc of record_once, its second: {} or {s}
    fSeg,        \* number of record_once calls started
    fWavs,       \* NFC_<stem>.wav files on disk: [stem, seg], seg the call that wrote it
    fMetas,      \* NFC_<stem>.json files on disk: [stem, seg, utc_start, complete];
                 \* complete is FALSE between open(meta, "w") and the close
    fLost,       \* history: kinds ("wav", "json") of the files of an earlier segment
                 \* that were overwritten
    fSeen        \* history: what the latest load_metadata of a reader found

gateVars == <<chrony_ok, daemon>>
clockVars == <<secs, localIdx>>
ppsVars == <<caller, waited, last_ts>>
recVars == <<stamp, start_utc, recElapsed, child, childRc, alive>>
histVars == <<stopAt, sinceStop>>

schedVars == <<pc, running, gateVars, clockVars, sleepLeft, ppsVars, recVars, gapI,
               lastMeta, histVars>>

alignVars == <<aPc, aRate, aNSamples, aStartUs, aPpsUs, aRes, aRating>>
winVars == <<wPc, wNow, wWindow, wRes, wResHour>>

batchVars == <<bPc, cArg, bItems, bIdx, alignments, bReported, bSummary, cExit>>
segVars == <<fPc, fClock, fStamp, fStartUtc, fSeg, fWavs, fMetas, fLost, fSeen>>

\* what the actions of one specification leave alone
nonSchedVars == <<alignVars, winVars, batchVars, segVars>>
nonAlignVars == <<schedVars, winVars, batchVars, segVars>>
nonWinVars == <<schedVars, alignVars, batchVars, segVars>>
nonBatchVars == <<schedVars, alignVars, winVars, segVars>>
nonSegVars == <<schedVars, alignVars, winVars, batchVars>>

vars == <<schedVars, alignVars, winVars, batchVars, segVars>>

(***************************************************************************)
(* Local time of day: <<hour, minute>>, compared as datetime.time compares *)
(***************************************************************************)
TimeLT(a, b) == a[1] < b[1] \/ (a[1] = b[1] /\ a[2] < b[2])
TimeGE(a, b) == ~TimeLT(a, b)

\* the local times of day the scheduler's clock passes through, in order, cyclically
LocalTimes == << <<5, 59>>, <<6, 0>>, <<21, 59>>, <<22, 0>> >>

now_local == LocalTimes[localIdx]

\* is_within_night_local with `and` for `or`
is_within_night_local_and(t) == TimeGE(t, <<22, 0>>) /\ TimeLT(t, <<6, 0>>)

\* window 22:00-06:00 (crosses midnight)
is_within_night_local(t) == TimeGE(t, <<22, 0>>) \/ TimeLT(t, <<6, 0>>)

(***************************************************************************)
(* Clock sync gate                                                         *)
(***************************************************************************)
\* what running chronyc can do: exit 0, exit non-zero (not synced within its
\* timeout), or fail to be invoked at all (subprocess.run raises OSError)
DaemonOutcomes == {"rc0", "rc_nonzero", "invoke_failed"}

\* chrony_waitsync without the try/except: the OSError of a failed invocation escapes
chrony_waitsync_noexcept(o) ==
    [raised |-> o = "invoke_failed", value |-> o = "rc0"]

\* lines 22-27: returncode == 0, and False on any exception
chrony_waitsync(o) ==
    [raised |-> FALSE, value |-> IF o = "invoke_failed" THEN FALSE ELSE o = "rc0"]

\* a main() that enters its loop right after the gate, without the ALIGN step
AfterSyncGate_noalign(ok) == "loop_check"

\* main() lines 106-111: the warning is printed and the ALIGN step starts either way
AfterSyncGate(ok) == "pps_loop"

(***************************************************************************)
(* Sleeps and loop conditions                                              *)
(***************************************************************************)
\* a sleep of (60 - secs) mod 60: nothing at all on a minute boundary
SleepToNextMinute_mod(s) == (MinuteTicks - s) % MinuteTicks

\* time.sleep(60 - secs), in ticks
SleepToNextMinute(s) == MinuteTicks - s

PpsTimeoutTicks(c) == (IF c = "align" THEN ALIGN_PPS_TIMEOUT ELSE REC_PPS_TIMEOUT) * TicksPerSec

\* second of the minute of the instant `w` ticks before tick `s` of the minute
SecondBefore(s, w) == ((s - w) % MinuteTicks) \div TicksPerSec

\* `waited` is counted up to here
PpsWaitCap(c) == PpsTimeoutTicks(c) + PpsLateSecBound * TicksPerSec

\* `while running`
LoopContinues(run) == run

\* a GAP loop that sleeps its PAUSE_SEC seconds without looking at the flag
GapBreaks_nopoll(run) == FALSE

\* `if not running: break`
GapBreaks(run) == ~run

\* a proc.poll() in the place of proc.wait(): returns whether or not the child has ended
ProcWaitReturns_poll(c) == TRUE

\* line 88, rc = proc.wait(): returns once the child has ended, not before
ProcWaitReturns(c) == c = "exited"

\* a record_once that raises on a non-zero return code (as check=True would)
AfterCapture_check(rcs) == IF rcs = {0} THEN "gap_check" ELSE "crashed"

\* lines 88-102 and 116-118: rc is stored and not looked at; record_once returns
\* and main() enters the GAP loop
AfterCapture(rcs) == "gap_check"

\* json written by record_once
MetaDict(fileStamp, startTick, endTick, rc) ==
    [file |-> fileStamp, utc_start |-> startTick, utc_end |-> endTick,
     sample_rate_hz |-> RATE, bits |-> BITS, channels |-> CHANNELS,
     duration_s |-> RecSecBound, arecord_rc |-> rc]

(***************************************************************************)
(* Scheduler                                                               *)
(***************************************************************************)
Blocking == {"wait_sync", "pps_read", "pps_eof", "align_sleep", "capturing",
             "gap_sleep", "idle_sleep", "idle_sleep1"}
Sleeping == {"align_sleep", "gap_sleep", "idle_sleep", "idle_sleep1"}
PpsPcs == {"pps_loop", "pps_read", "pps_eof"}

\* the scheduler state of the specification a position belongs to
Phase(p, c) ==
    CASE p \in {"init", "wait_sync", "align_sleep"} -> "startup"
      [] p \in PpsPcs -> IF c = "align" THEN "startup" ELSE "pps_wait"
      [] p \in {"loop_check", "night_eval"} -> "loop"
      [] p = "capturing" -> "recording"
      [] p \in {"gap_check", "gap_sleep"} -> "gap"
      [] p \in {"idle_sleep", "idle_sleep1"} -> "idle"
      [] OTHER -> "shutdown"

SchedInit ==
    /\ pc = "init"
    /\ running = TRUE
    /\ chrony_ok = FALSE
    /\ daemon = None
    /\ secs \in 0 .. MinuteTicks - 1
    /\ localIdx \in 1 .. Len(LocalTimes)
    /\ sleepLeft = 0
    /\ caller = None
    /\ waited = 0
    /\ last_ts = None
    /\ stamp = None
    /\ start_utc = None
    /\ recElapsed = 0
    /\ child = "none"
    /\ childRc = {}
    /\ alive = 0
    /\ gapI = 0
    /\ lastMeta = {}
    /\ stopAt = None
    /\ sinceStop = 0

\* _sigterm: the handler runs asynchronously, between any two steps
Signal ==
    /\ pc \notin {"done", "crashed"}
    /\ running
    /\ running' = FALSE
    /\ stopAt' = Phase(pc, caller)
    /\ sinceStop' = 0
    /\ lastMeta' = {}
    /\ UNCHANGED <<pc, gateVars, clockVars, sleepLeft, ppsVars, recVars, gapI>>
    /\ UNCHANGED nonSchedVars

\* time passes inside a blocking call
Tick ==
    /\ pc \in Blocking
    /\ pc \in Sleeping \cup {"pps_eof"} => sleepLeft > 0
    /\ pc = "capturing" => child = "running" /\ recElapsed < RecTicks
    /\ secs' = (secs + 1) % MinuteTicks
    /\ \/ localIdx' = localIdx
       \/ /\ secs + 1 = MinuteTicks
          /\ localIdx' = (localIdx % Len(LocalTimes)) + 1
    /\ sleepLeft' = IF sleepLeft > 0 THEN sleepLeft - 1 ELSE 0
    /\ waited' = IF pc \in PpsPcs /\ waited < PpsWaitCap(caller) THEN waited + 1 ELSE waited
    /\ recElapsed' = IF pc = "capturing" THEN recElapsed + 1 ELSE recElapsed
    /\ sinceStop' = IF ~running /\ sinceStop < StopCap THEN sinceStop + 1 ELSE sinceStop
    /\ lastMeta' = {}
    /\ UNCHANGED <<pc, running, gateVars, caller, last_ts, stamp, start_utc, child, childRc,
                   alive, gapI, stopAt>>
    /\ UNCHANGED nonSchedVars

\* main(): ensure_dirs, then chrony_waitsync(120) runs chronyc
Start ==
    /\ pc = "init"
    /\ pc' = "wait_sync"
    /\ daemon' \in DaemonOutcomes
    /\ lastMeta' = {}
    /\ UNCHANGED <<running, chrony_ok, clockVars, sleepLeft, ppsVars, recVars, gapI, histVars>>
    /\ UNCHANGED nonSchedVars

\* chrony_waitsync returns (or raises) and main() goes on to pps_wait_assert(timeout=10)
SyncGateReturns ==
    /\ pc = "wait_sync"
    /\ LET r == chrony_waitsync(daemon) IN
         IF r.raised
           THEN /\ pc' = "crashed"
                /\ UNCHANGED <<chrony_ok, ppsVars>>
           ELSE /\ chrony_ok' = r.value
                /\ pc' = AfterSyncGate(r.value)
                /\ caller' = "align"
                /\ waited' = 0
                /\ last_ts' = None
    /\ lastMeta' = {}
    /\ UNCHANGED <<running, daemon, clockVars, sleepLeft, recVars, gapI, histVars>>
    /\ UNCHANGED nonSchedVars

\* pps_wait_assert: `while time.time() < deadline` holds, readline() is called
PpsLoopRead ==
    /\ pc = "pps_loop"
    /\ waited < PpsTimeoutTicks(caller)
    /\ pc' = "pps_read"
    /\ chrony_ok' = FALSE
    /\ daemon' = None
    /\ lastMeta' = {}
    /\ UNCHANGED <<running, clockVars, sleepLeft, ppsVars, recVars, gapI, histVars>>
    /\ UNCHANGED nonSchedVars

\* readline() returns a line that is no assert line: back to the loop condition
PpsLineOther ==
    /\ pc = "pps_read"
    /\ waited < PpsWaitCap(caller)
    /\ pc' = "pps_loop"
    /\ lastMeta' = {}
    /\ UNCHANGED <<running, gateVars, clockVars, sleepLeft, ppsVars, recVars, gapI, histVars>>
    /\ UNCHANGED nonSchedVars

\* readline() returns '' (ppstest has ended): time.sleep(0.01)
PpsEof ==
    /\ pc = "pps_read"
    /\ waited < PpsWaitCap(caller)
    /\ pc' = "pps_eof"
    /\ sleepLeft' = 1
    /\ lastMeta' = {}
    /\ UNCHANGED <<running, gateVars, clockVars, ppsVars, recVars, gapI, histVars>>
    /\ UNCHANGED nonSchedVars

\* the 10 ms sleep ends (within the tick or with it) and the loop continues
PpsEofSleepDone ==
    /\ pc = "pps_eof"
    /\ pc' = "pps_loop"
    /\ sleepLeft' = 0
    /\ lastMeta' = {}
    /\ UNCHANGED <<running, gateVars, clockVars, ppsVars, recVars, gapI, histVars>>
    /\ UNCHANGED nonSchedVars

\* what follows the return of pps_wait_assert in its caller (the returned value is
\* dropped by both):
\*   main() line 112: sleep_to_next_full_minute_utc()
\*   record_once() lines 85-87: the capture is launched, whatever `running` is
PpsReturn(ts) ==
    /\ last_ts' = ts
    /\ waited' = 0
    /\ caller' = None
    /\ IF caller = "align"
         THEN /\ pc' = "align_sleep"
              /\ sleepLeft' = SleepToNextMinute(secs)
              /\ UNCHANGED recVars
         ELSE /\ pc' = "capturing"
              /\ stamp' = SecondBefore(secs, waited)
              /\ start_utc' = secs
              /\ recElapsed' = 0
              /\ child' = "running"
              /\ childRc' = {}
              /\ alive' = alive + 1
              /\ UNCHANGED sleepLeft
    /\ lastMeta' = {}
    /\ UNCHANGED <<running, gateVars, clockVars, gapI, histVars>>
    /\ UNCHANGED nonSchedVars

\* readline() returns an assert line: count reaches pulses, break, return last_ts
PpsLineAssert ==
    /\ pc = "pps_read"
    /\ waited < PpsWaitCap(caller)
    /\ PpsReturn("ts")

\* the deadline has passed: the loop ends and last_ts (None) is returned
PpsTimeout ==
    /\ pc = "pps_loop"
    /\ waited >= PpsTimeoutTicks(caller)
    /\ PpsReturn(last_ts)

\* a time.sleep() of main() ends
SleepDone ==
    /\ pc \in Sleeping
    /\ sleepLeft = 0
    /\ \/ /\ pc \in {"align_sleep", "idle_sleep1"}
          /\ pc' = "loop_check"
          /\ UNCHANGED <<sleepLeft, gapI>>
       \/ /\ pc = "idle_sleep"
          /\ pc' = "idle_sleep1"
          /\ sleepLeft' = TicksPerSec
          /\ UNCHANGED gapI
       \/ /\ pc = "gap_sleep"
          /\ pc' = "gap_check"
          /\ gapI' = gapI + 1
          /\ UNCHANGED sleepLeft
    /\ lastMeta' = {}
    /\ last_ts' = None
    /\ UNCHANGED <<running, gateVars, clockVars, caller, waited, recVars, histVars>>
    /\ UNCHANGED nonSchedVars

\* `while running`
LoopCheck ==
    /\ pc = "loop_check"
    /\ pc' = IF LoopContinues(running) THEN "night_eval" ELSE "done"
    /\ lastMeta' = {}
    /\ UNCHANGED <<running, gateVars, clockVars, sleepLeft, ppsVars, recVars, gapI, histVars>>
    /\ UNCHANGED nonSchedVars

\* `if is_within_night_local()`: record_once() starts (stamp, then the PPS wait),
\* or sleep_to_next_full_minute_utc() of the else branch
NightEval ==
    /\ pc = "night_eval"
    /\ IF is_within_night_local(now_local)
         THEN /\ pc' = "pps_loop"
              /\ caller' = "record"
              /\ waited' = 0
              /\ last_ts' = None
              /\ UNCHANGED sleepLeft
         ELSE /\ pc' = "idle_sleep"
              /\ sleepLeft' = SleepToNextMinute(secs)
              /\ UNCHANGED ppsVars
    /\ lastMeta' = {}
    /\ UNCHANGED <<running, gateVars, clockVars, recVars, gapI, histVars>>
    /\ UNCHANGED nonSchedVars

\* the capture child ends (environment): arecord ran its -d duration (rc 0) or
\* ended early with an error (rc 1 stands for every non-zero code)
ChildExits ==
    /\ child = "running"
    /\ \E rc \in {0, 1} :
         /\ rc = 0 => recElapsed = RecTicks
         /\ childRc' = {rc}
    /\ child' = "exited"
    /\ alive' = alive - 1
    /\ lastMeta' = {}
    /\ UNCHANGED <<pc, running, gateVars, clockVars, sleepLeft, ppsVars, stamp, start_utc,
                   recElapsed, gapI, histVars>>
    /\ UNCHANGED nonSchedVars

\* lines 88-102: proc.wait() returns, end_utc is taken, the metadata is written and
\* record_once returns into the GAP loop of main()
CaptureEnds ==
    /\ pc = "capturing"
    /\ ProcWaitReturns(child)
    /\ lastMeta' = {MetaDict(stamp, start_utc, secs, rc) : rc \in childRc}
    /\ child' = "none"
    /\ childRc' = {}
    /\ stamp' = None
    /\ start_utc' = None
    /\ recElapsed' = 0
    /\ last_ts' = None
    /\ pc' = AfterCapture(childRc)
    /\ gapI' = 0
    /\ UNCHANGED <<running, gateVars, clockVars, sleepLeft, caller, waited, alive, histVars>>
    /\ UNCHANGED nonSchedVars

\* `for _ in range(PAUSE_SEC): if not running: break; time.sleep(1)`
GapCheck ==
    /\ pc = "gap_check"
    /\ IF gapI >= PAUSE_SEC \/ GapBreaks(running)
         THEN /\ pc' = "loop_check"
              /\ gapI' = 0
              /\ UNCHANGED sleepLeft
         ELSE /\ pc' = "gap_sleep"
              /\ sleepLeft' = TicksPerSec
              /\ UNCHANGED gapI
    /\ lastMeta' = {}
    /\ UNCHANGED <<running, gateVars, clockVars, ppsVars, recVars, histVars>>
    /\ UNCHANGED nonSchedVars

SchedNext ==
    \/ Signal
    \/ Tick
    \/ Start
    \/ SyncGateReturns
    \/ PpsLoopRead
    \/ PpsLineOther
    \/ PpsEof
    \/ PpsEofSleepDone
    \/ PpsLineAssert
    \/ PpsTimeout
    \/ SleepDone
    \/ LoopCheck
    \/ NightEval
    \/ ChildExits
    \/ CaptureEnds
    \/ GapCheck


SchedOff ==
    /\ pc = "off"
    /\ running = TRUE
    /\ chrony_ok = FALSE
    /\ daemon = None
    /\ secs = 0
    /\ localIdx = 1
    /\ sleepLeft = 0
    /\ caller = None
    /\ waited = 0
    /\ last_ts = None
    /\ stamp = None
    /\ start_utc = None
    /\ recElapsed = 0
    /\ child = "none"
    /\ childRc = {}
    /\ alive = 0
    /\ gapI = 0
    /\ lastMeta = {}
    /\ stopAt = None
    /\ sinceStop = 0

(***************************************************************************)
(* Alignment calculator (src/data/pps_wav_alignment.py)                    *)
(*                                                                         *)
(* Times are integers in microseconds and sample counts are integers in    *)
(* millionths of a sample, so the products and differences of the source   *)
(* are computed exactly; the rounding of IEEE doubles is not modelled.     *)
(* Quantities in nanoseconds are fractions [num, den].                     *)
(***************************************************************************)
Million == 1000 * 1000

\* largest offset of the input grid, in steps of 70 microseconds
MaxOffsetSteps == 6

Abs(x) == IF x < 0 THEN -x ELSE x

\* floor(x / Million) for x in millionths
Floor(x) == x \div Million

\* Python int(x) of a float: rounds toward zero
IntTrunc(x) == IF x >= 0 THEN x \div Million ELSE -((-x) \div Million)

\* the branch taken on `<= 0`
PpsIndexOf_le(x) ==
    IF x <= 0
      THEN [pps_sample_index |-> IntTrunc(Abs(x)), pps_within_recording |-> TRUE]
      ELSE [pps_sample_index |-> 0, pps_within_recording |-> FALSE]

\* lines 82-89: `if pps_offset_samples < 0`
PpsIndexOf(x) ==
    IF x < 0
      THEN [pps_sample_index |-> IntTrunc(Abs(x)), pps_within_recording |-> TRUE]
      ELSE [pps_sample_index |-> 0, pps_within_recording |-> FALSE]

\* line 96: pps_offset_samples - int(pps_offset_samples), in millionths of a sample
FractionalSample(x) == x - IntTrunc(x) * Million

\* a sample period taken in microseconds where nanoseconds are meant
FractionalOffsetNs_us(frac, rate) == [num |-> frac, den |-> rate]

\* line 97: fractional_sample * sample_period_ns, sample_period_ns = 1e9 / sample_rate
FractionalOffsetNs(frac, rate) == [num |-> frac * 1000, den |-> rate]

RatAbs(r) == [num |-> Abs(r.num), den |-> r.den]

\* r < k for a fraction r with den > 0 and an integer k
RatLess(r, k) == (r.num \div r.den) < k

find_pps_alignment(rate, startUs, ppsUs) ==
    LET pps_to_start_offset == startUs - ppsUs
        pps_offset_samples == pps_to_start_offset * rate
        ix == PpsIndexOf(pps_offset_samples)
        fractional_sample == FractionalSample(pps_offset_samples)
        fractional_offset_ns == FractionalOffsetNs(fractional_sample, rate)
    IN  [pps_utc_timestamp |-> ppsUs,
         recording_start_timestamp |-> startUs,
         pps_to_start_offset_us |-> pps_to_start_offset,
         pps_offset_usamples |-> pps_offset_samples,
         pps_sample_index |-> ix.pps_sample_index,
         pps_within_recording |-> ix.pps_within_recording,
         sample_rate_hz |-> rate,
         fractional_sample_offset |-> fractional_sample,
         fractional_offset_ns |-> fractional_offset_ns,
         alignment_precision_ns |-> RatAbs(fractional_offset_ns)]

\* create_timing_report lines 161-169
PrecisionRating(p) ==
    IF RatLess(p, 1000) THEN "EXCELLENT"
    ELSE IF RatLess(p, 10000) THEN "GOOD"
    ELSE IF RatLess(p, 100000) THEN "FAIR"
    ELSE "POOR"

\* the inputs of the worked example: utc_start = 100.0000000, pps = 99.9997900
ExampleStartUs == 100 * Million
ExamplePpsUs == ExampleStartUs - 210

Rates == {1, 8000, RATE}
OffsetsUs == {k * 70 : k \in -MaxOffsetSteps .. MaxOffsetSteps} \cup {210, -210}
NSampleCounts == {0, 5, RATE}

AlignInputs ==
    /\ aRate \in Rates
    /\ aNSamples \in NSampleCounts
    /\ aStartUs = ExampleStartUs
    /\ aPpsUs \in {ExampleStartUs - o : o \in OffsetsUs}

AlignInit ==
    /\ aPc = "input"
    /\ AlignInputs
    /\ aRes = {}
    /\ aRating = None

AlignOff ==
    /\ aPc = "off"
    /\ aRate = RATE
    /\ aNSamples = 0
    /\ aStartUs = 0
    /\ aPpsUs = 0
    /\ aRes = {}
    /\ aRating = None

\* create_timing_report line 138: alignment = find_pps_alignment(metadata, wav_info)
AlignCompute ==
    /\ aPc = "input"
    /\ aRes' = {find_pps_alignment(aRate, aStartUs, aPpsUs)}
    /\ aPc' = "computed"
    /\ UNCHANGED <<aRate, aNSamples, aStartUs, aPpsUs, aRating>>
    /\ UNCHANGED nonAlignVars

\* create_timing_report lines 161-173: the rating is printed, the alignment returned
AlignReport ==
    /\ aPc = "computed"
    /\ \E r \in aRes : aRating' = PrecisionRating(r.alignment_precision_ns)
    /\ aPc' = "reported"
    /\ UNCHANGED <<aRate, aNSamples, aStartUs, aPpsUs, aRes>>
    /\ UNCHANGED nonAlignVars

\* the next WAV/JSON pair is analysed
AlignNextInput ==
    /\ aPc = "reported"
    /\ aPc' = "input"
    /\ aRate' \in Rates
    /\ aNSamples' \in NSampleCounts
    /\ aStartUs' = ExampleStartUs
    /\ aPpsUs' \in {ExampleStartUs - o : o \in OffsetsUs}
    /\ aRes' = {}
    /\ aRating' = None
    /\ UNCHANGED nonAlignVars

AlignNext ==
    \/ AlignCompute
    \/ AlignReport
    \/ AlignNextInput

(***************************************************************************)
(* Night-window predicates                                                 *)
(***************************************************************************)
\* one.mic.pps.2: `hour >= 22 or hour < 6`
is_recording_time(t) == t[1] >= 22 \/ t[1] < 6

TimesOfDay == {<<h, m>> : h \in 0 .. 23, m \in {0, 30, 59}}

\* windows a deployment may be configured for: wrapping and non-wrapping
Windows == {[start |-> <<22, 0>>, end |-> <<6, 0>>],
            [start |-> <<6, 0>>, end |-> <<22, 0>>]}

WinInit ==
    /\ wPc = "input"
    /\ wNow \in TimesOfDay
    /\ wWindow \in Windows
    /\ wRes = FALSE
    /\ wResHour = FALSE

WinOff ==
    /\ wPc = "off"
    /\ wNow = <<0, 0>>
    /\ wWindow = [start |-> <<22, 0>>, end |-> <<6, 0>>]
    /\ wRes = FALSE
    /\ wResHour = FALSE

\* the predicates are evaluated at wNow; neither takes the configured window
WinEval ==
    /\ wPc = "input"
    /\ wRes' = is_within_night_local(wNow)
    /\ wResHour' = is_recording_time(wNow)
    /\ wPc' = "evaluated"
    /\ UNCHANGED <<wNow, wWindow>>
    /\ UNCHANGED nonWinVars

WinNextInput ==
    /\ wPc = "evaluated"
    /\ wPc' = "input"
    /\ wNow' \in TimesOfDay
    /\ wWindow' \in Windows
    /\ wRes' = FALSE
    /\ wResHour' = FALSE
    /\ UNCHANGED nonWinVars

WinNext ==
    \/ WinEval
    \/ WinNextInput

(***************************************************************************)
(* Analysis command line (src/data/pps_wav_alignment.py, lines 114-239)    *)
(*                                                                         *)
(* An item is one NFC_*.wav file with what the analysis finds next to and  *)
(* inside it.                                                              *)
(***************************************************************************)
Item(j, w, d, p, c) ==
    [json_exists |-> j, wav_ok |-> w, json_ok |-> d, has_pps |-> p, pps_complete |-> c]

\* no .json next to the .wav | audio that wave.open or load_wav_file rejects |
\* metadata that json.load rejects | metadata without 'pps_timing' |
\* 'pps_timing' without 'pps_utc_timestamp' | a complete pair
Items ==
    { Item(FALSE, TRUE, FALSE, FALSE, FALSE),
      Item(TRUE, FALSE, TRUE, TRUE, TRUE),
      Item(TRUE, TRUE, FALSE, FALSE, FALSE),
      Item(TRUE, TRUE, TRUE, FALSE, FALSE),
      Item(TRUE, TRUE, TRUE, TRUE, FALSE),
      Item(TRUE, TRUE, TRUE, TRUE, TRUE) }

Directories == UNION {[1 .. n -> Items] : n \in 0 .. MaxBatchLen}

\* lines 122-128: load_wav_file and load_metadata inside try/except Exception
LoadFiles(it) == IF it.wav_ok /\ it.json_ok THEN "loaded" ELSE "except"

\* find_pps_alignment, lines 64-71: None without 'pps_timing'; the subscript
\* pps_info['pps_utc_timestamp'] raises KeyError when the key is missing
FindPps(it) ==
    IF ~it.has_pps THEN "None"
    ELSE IF ~it.pps_complete THEN "KeyError"
    ELSE "alignment"

\* create_timing_report: None after a load error, else what find_pps_alignment
\* returns or raises (the call of line 138 is outside the try)
create_timing_report(it) ==
    IF LoadFiles(it) = "except" THEN "None" ELSE FindPps(it)

\* exit status of the interpreter after an uncaught exception
TracebackStatus == 1

BatchInit ==
    /\ bPc = "main"
    /\ cArg \in {"none", "dir", "wav", "invalid"}
    /\ bItems \in Directories
    /\ cArg \in {"none", "invalid"} => bItems = << >>
    /\ cArg = "wav" => Len(bItems) = 1
    /\ bIdx = 1
    /\ alignments = << >>
    /\ bReported = {}
    /\ bSummary = {}
    /\ cExit = {}

BatchOff ==
    /\ bPc = "off"
    /\ cArg = "none"
    /\ bItems = << >>
    /\ bIdx = 1
    /\ alignments = << >>
    /\ bReported = {}
    /\ bSummary = {}
    /\ cExit = {}

\* main() without a usable path: usage or "Invalid path", return 1
CliNoInput ==
    /\ bPc = "main"
    /\ cArg \in {"none", "invalid"}
    /\ bPc' = "returned"
    /\ cExit' = {1}
    /\ UNCHANGED <<cArg, bItems, bIdx, alignments, bReported, bSummary>>
    /\ UNCHANGED nonBatchVars

\* main() lines 225-235 on one .wav file: return 1 without the sibling .json,
\* else create_timing_report is called, its result is dropped and 0 is returned
CliSingleFile ==
    /\ bPc = "main"
    /\ cArg = "wav"
    /\ LET it == bItems[1] IN
         IF ~it.json_exists
           THEN /\ bPc' = "returned"
                /\ cExit' = {1}
                /\ bReported' = {1}
                /\ UNCHANGED alignments
           ELSE LET r == create_timing_report(it) IN
                  /\ bPc' = IF r = "KeyError" THEN "raised" ELSE "returned"
                  /\ cExit' = IF r = "KeyError" THEN {TracebackStatus} ELSE {0}
                  /\ bReported' = IF r = "None" THEN {1} ELSE {}
                  /\ UNCHANGED alignments
    /\ UNCHANGED <<cArg, bItems, bIdx, bSummary>>
    /\ UNCHANGED nonBatchVars

\* main() on a directory: analyze_multiple_files returns at once without
\* NFC_*.wav files (and main returns 0), else it starts its for loop
CliDirectory ==
    /\ bPc = "main"
    /\ cArg = "dir"
    /\ IF bItems = << >>
         THEN /\ bPc' = "returned"
              /\ cExit' = {0}
         ELSE /\ bPc' = "loop"
              /\ UNCHANGED cExit
    /\ UNCHANGED <<cArg, bItems, bIdx, alignments, bReported, bSummary>>
    /\ UNCHANGED nonBatchVars

\* one iteration of `for wav_file in sorted(wav_files)`, lines 187-201
BatchItem ==
    /\ bPc = "loop"
    /\ bIdx <= Len(bItems)
    /\ LET it == bItems[bIdx] IN
         IF ~it.json_exists
           THEN /\ bReported' = bReported \cup {bIdx}
                /\ bIdx' = bIdx + 1
                /\ UNCHANGED <<bPc, alignments, cExit>>
           ELSE LET r == create_timing_report(it) IN
                  CASE r = "KeyError" ->
                         /\ bPc' = "raised"
                         /\ cExit' = {TracebackStatus}
                         /\ UNCHANGED <<bIdx, alignments, bReported>>
                    [] r = "None" ->
                         /\ bReported' = bReported \cup {bIdx}
                         /\ bIdx' = bIdx + 1
                         /\ UNCHANGED <<bPc, alignments, cExit>>
                    [] OTHER ->
                         /\ alignments' = Append(alignments, bIdx)
                         /\ bIdx' = bIdx + 1
                         /\ UNCHANGED <<bPc, bReported, cExit>>
    /\ UNCHANGED <<cArg, bItems, bSummary>>
    /\ UNCHANGED nonBatchVars

\* lines 203-210 and 235: the summary over `alignments` if there is any, return 0
BatchSummary ==
    /\ bPc = "loop"
    /\ bIdx > Len(bItems)
    /\ bSummary' = IF alignments # << >> THEN {Len(alignments)} ELSE {}
    /\ bPc' = "returned"
    /\ cExit' = {0}
    /\ UNCHANGED <<cArg, bItems, bIdx, alignments, bReported>>
    /\ UNCHANGED nonBatchVars

BatchNext ==
    \/ CliNoInput
    \/ CliSingleFile
    \/ CliDirectory
    \/ BatchItem
    \/ BatchSummary

(***************************************************************************)
(* Segment files (record_once, lines 67-102; load_metadata, lines 43-46)   *)
(*                                                                         *)
(* The steps of record_once that touch the disk, one at a time, so that a  *)
(* reader can run between them.  The wall clock counts whole seconds; it   *)
(* is the system clock, which main() uses whether or not it is synced      *)
(* (lines 106-109) and which the sync daemon may therefore still step.     *)
(***************************************************************************)
Stems == 0 .. MaxClockSec

SegInit ==
    /\ fPc = "idle"
    /\ fClock \in Stems
    /\ fStamp = {}
    /\ fStartUtc = {}
    /\ fSeg = 0
    /\ fWavs = {}
    /\ fMetas = {}
    /\ fLost = {}
    /\ fSeen = None

SegOff ==
    /\ fPc = "off"
    /\ fClock = 0
    /\ fStamp = {}
    /\ fStartUtc = {}
    /\ fSeg = 0
    /\ fWavs = {}
    /\ fMetas = {}
    /\ fLost = {}
    /\ fSeen = None

\* the files of `files` that a write to NFC_<stem> replaces
Replaced(files, stem) == {f \in files : f.stem = stem}

\* lines 68-75: utc_start = now, stamp, outwav and meta are named after it, and
\* the PPS wait starts
SegEnter ==
    /\ fPc = "idle"
    /\ fSeg < MaxSegs
    /\ fSeg' = fSeg + 1
    /\ fStamp' = {fClock}
    /\ fPc' = "pps"
    /\ UNCHANGED <<fClock, fStartUtc, fWavs, fMetas, fLost, fSeen>>
    /\ UNCHANGED nonSegVars

\* lines 86-87: the PPS wait has returned, start_utc = now, arecord is started
SegLaunch ==
    /\ fPc = "pps"
    /\ fStartUtc' = {fClock}
    /\ fPc' = "capturing"
    /\ UNCHANGED <<fClock, fStamp, fSeg, fWavs, fMetas, fLost, fSeen>>
    /\ UNCHANGED nonSegVars

\* the capture child creates its output file, or truncates the file of that name
\* (a child that cannot open the audio device ends without taking this step)
SegChildOpens ==
    /\ fPc = "capturing"
    /\ \A w \in fWavs : w.seg # fSeg
    /\ \E s \in fStamp :
         /\ fWavs' = (fWavs \ Replaced(fWavs, s)) \cup {[stem |-> s, seg |-> fSeg]}
         /\ fLost' = fLost \cup {"wav" : w \in Replaced(fWavs, s)}
    /\ UNCHANGED <<fPc, fClock, fStamp, fStartUtc, fSeg, fMetas, fSeen>>
    /\ UNCHANGED nonSegVars

\* lines 88-101: proc.wait() returns, meta_dict is built and open(meta, "w")
\* creates the metadata file or truncates the one of that name
SegCaptureEnds ==
    /\ fPc = "capturing"
    /\ \E s \in fStamp : \E u \in fStartUtc :
         /\ fMetas' = (fMetas \ Replaced(fMetas, s)) \cup
                        {[stem |-> s, seg |-> fSeg, utc_start |-> u, complete |-> FALSE]}
         /\ fLost' = fLost \cup {"json" : m \in Replaced(fMetas, s)}
    /\ fPc' = "meta_open"
    /\ UNCHANGED <<fClock, fStamp, fStartUtc, fSeg, fWavs, fSeen>>
    /\ UNCHANGED nonSegVars

\* line 102 and the end of the with block: json.dump, the buffer is flushed and
\* the file closed; record_once returns into the GAP loop
SegMetaClose ==
    /\ fPc = "meta_open"
    /\ fMetas' = {IF m.seg = fSeg THEN [m EXCEPT !.complete = TRUE] ELSE m : m \in fMetas}
    /\ fPc' = "gap"
    /\ UNCHANGED <<fClock, fStamp, fStartUtc, fSeg, fWavs, fLost, fSeen>>
    /\ UNCHANGED nonSegVars

\* lines 117-120 and 114-116: the PAUSE_SEC one-second sleeps of the GAP loop
\* pass, next iteration
SegGapDone ==
    /\ fPc = "gap"
    /\ fClock + PAUSE_SEC <= MaxClockSec
    /\ fClock' = fClock + PAUSE_SEC
    /\ fPc' = "idle"
    /\ fStamp' = {}
    /\ fStartUtc' = {}
    /\ UNCHANGED <<fSeg, fWavs, fMetas, fLost, fSeen>>
    /\ UNCHANGED nonSegVars

\* a second passes inside the PPS wait or the capture
SegTick ==
    /\ fPc \in {"pps", "capturing"}
    /\ fClock < MaxClockSec
    /\ fClock' = fClock + 1
    /\ UNCHANGED <<fPc, fStamp, fStartUtc, fSeg, fWavs, fMetas, fLost, fSeen>>
    /\ UNCHANGED nonSegVars

\* the system clock is set (by the sync daemon or by hand) while the recorder runs
ClockStep ==
    /\ fPc # "off"
    /\ fClock' \in Stems \ {fClock}
    /\ UNCHANGED <<fPc, fStamp, fStartUtc, fSeg, fWavs, fMetas, fLost, fSeen>>
    /\ UNCHANGED nonSegVars

\* load_metadata of a concurrently running analysis opens one of the metadata
\* files and json.load reads what is in it
AnalyzerLoads ==
    /\ fPc # "off"
    /\ \E m \in fMetas : fSeen' = IF m.complete THEN "record" ELSE "partial"
    /\ UNCHANGED <<fPc, fClock, fStamp, fStartUtc, fSeg, fWavs, fMetas, fLost>>
    /\ UNCHANGED nonSegVars

SegNext ==
    \/ SegEnter
    \/ SegLaunch
    \/ SegChildOpens
    \/ SegCaptureEnds
    \/ SegMetaClose
    \/ SegGapDone
    \/ SegTick
    \/ ClockStep
    \/ AnalyzerLoads

(***************************************************************************)
(* Specifications                                                          *)
(***************************************************************************)
Init == SchedInit /\ AlignOff /\ WinOff /\ BatchOff /\ SegOff
Next == SchedNext
Spec == Init /\ [][Next]_vars

InitAlign == SchedOff /\ AlignInit /\ WinOff /\ BatchOff /\ SegOff
NextAlign == AlignNext
SpecAlign == InitAlign /\ [][NextAlign]_vars

InitWindow == SchedOff /\ AlignOff /\ WinInit /\ BatchOff /\ SegOff
NextWindow == WinNext
SpecWindow == InitWindow /\ [][NextWindow]_vars

InitBatch == SchedOff /\ AlignOff /\ WinOff /\ BatchInit /\ SegOff
NextBatch == BatchNext
SpecBatch == InitBatch /\ [][NextBatch]_vars

InitSegment == SchedOff /\ AlignOff /\ WinOff /\ BatchOff /\ SegInit
NextSegment == SegNext
SpecSegment == InitSegment /\ [][NextSegment]_vars

(***************************************************************************)
(* Properties of the scheduler (checked under Spec)                        *)
(***************************************************************************)

\* C1: if the handler clears `running` during the GAP pause that follows a
\* segment, the scheduler stays in the GAP loop or at the `while running` test
\* until it has exited, starts no further iteration, and has exited at most one
\* second (TicksPerSec ticks) after the flag was cleared.
C1_GapShutdownWithinOneSecond ==
    stopAt = "gap" =>
        /\ pc \in {"gap_check", "gap_sleep", "loop_check", "done"}
        /\ sinceStop <= TicksPerSec

\* the flag was cleared at the start of a one-second GAP sleep and main() returned
\* exactly one second later
C1_Witness == stopAt = "gap" /\ pc = "done" /\ sinceStop = TicksPerSec

\* C2: when the flag is cleared while the capture child is running, the capture is
\* killed rather than awaited (the scheduler lets no time pass in proc.wait() once
\* the flag is cleared), and the metadata written for that segment carries a
\* truncated flag set to true.
C2_KilledAndFlagged ==
    stopAt = "recording" =>
        /\ pc = "capturing" => sinceStop = 0
        /\ \A m \in lastMeta : "truncated" \in DOMAIN m /\ m.truncated = TRUE

\* C3: if the handler clears `running` while the scheduler is in the IDLE branch
\* (the sleep to the next full minute and the one-second sleep after it), the
\* scheduler has exited at most one second after the flag was cleared.
C3_IdleShutdownWithinOneSecond == stopAt = "idle" => sinceStop <= TicksPerSec

\* C4: once the handler has cleared `running`, no capture is launched: a capture
\* child is running only if the flag is still set or was cleared while that
\* capture was already running.
C4_NoLaunchAfterToken == child = "running" => stopAt \in {None, "recording"}

\* C10: the clock sync gate never raises and yields false unless chronyc exited
\* with status 0; whatever it yields, main() goes on to the PPS wait of the
\* ALIGN step.
C10_GateNeverFatal ==
    /\ pc # "crashed"
    /\ (daemon # None /\ pc # "wait_sync") =>
           /\ pc = "pps_loop"
           /\ caller = "align"
           /\ chrony_ok = (daemon = "rc0")

\* chronyc could not be invoked, the gate returned false and the ALIGN step began
C10_Witness ==
    daemon = "invoke_failed" /\ pc = "pps_loop" /\ caller = "align" /\ ~chrony_ok

(***************************************************************************)
(* Properties of the night-window predicates (checked under SpecWindow)    *)
(***************************************************************************)
MinutesOfDay(t) == t[1] * 60 + t[2]

\* the window policy of the specification: start <= now < end for start < end,
\* now >= start or now < end for a window that wraps midnight
WindowPolicy(now, w) ==
    LET n == MinutesOfDay(now)
        st == MinutesOfDay(w.start)
        en == MinutesOfDay(w.end)
    IN  IF st < en THEN st <= n /\ n < en ELSE n >= st \/ n < en

NightWindow == [start |-> <<22, 0>>, end |-> <<6, 0>>]

C6_FractionInUnitInterval ==
    \A r \in aRes :
        /\ 0 <= r.fractional_sample_offset
        /\ r.fractional_sample_offset < Million
        /\ r.fractional_sample_offset =
               r.pps_offset_usamples - Floor(r.pps_offset_usamples) * Million

\* C7: offset_s >= 0 gives pps_within_recording = false and index 0; offset_s < 0
\* gives pps_within_recording = true and index floor(|offset_s| * sample_rate);
\* the index is never negative.
C7_IndexBySign ==
    \A r \in aRes :
        LET off == aStartUs - aPpsUs IN
        /\ off >= 0 => ~r.pps_within_recording /\ r.pps_sample_index = 0
        /\ off < 0 => /\ r.pps_within_recording
                      /\ r.pps_sample_index = Floor(Abs(off) * aRate)
        /\ r.pps_sample_index >= 0

\* a pulse 210 microseconds after the start of a 48 kHz recording: sample 10
C7_Witness ==
    \E r \in aRes :
        aStartUs - aPpsUs < 0 /\ r.pps_within_recording /\ r.pps_sample_index = 10

\* C8: whenever pps_within_recording is reported true, the reported index is
\* below the number of samples of the recording.
C8_IndexWithinArtifact ==
    \A r \in aRes : r.pps_within_recording => r.pps_sample_index < aNSamples

\* the worked example has been computed and rated
ExampleReported ==
    /\ aPc = "reported"
    /\ aRate = RATE
    /\ aStartUs = ExampleStartUs
    /\ aPpsUs = ExamplePpsUs

\* about 1666.7 ns: 1666.6 <= r < 1666.8
About1666_7(r) == (r.num * 10) \div r.den \in {16666, 16667}

\* what the worked example yields apart from the sample index
ExampleValues(r) ==
    /\ r.pps_to_start_offset_us = 210
    /\ r.pps_offset_usamples = 10080000
    /\ r.fractional_sample_offset = 80000
    /\ About1666_7(r.fractional_offset_ns)
    /\ About1666_7(r.alignment_precision_ns)
    /\ aRating = "GOOD"

\* C9 as stated: the worked example yields offset_s = 0.00021, offset_samples =
\* 10.08, pps_sample_index = 10, fractional offset 0.08, about 1666.7 ns, GOOD.
C9_WorkedExampleIndex10 ==
    ExampleReported =>
        \A r \in aRes : ExampleValues(r) /\ r.pps_sample_index = 10

\* C9 as amended: the same values, but the offset is positive (the recording
\* started after the pulse), so pps_sample_index = 0 and pps_within_recording
\* is false.
C9_WorkedExampleIndex0 ==
    ExampleReported =>
        \A r \in aRes :
            /\ ExampleValues(r)
            /\ r.pps_sample_index = 0
            /\ ~r.pps_within_recording

C9_Witness == ExampleReported /\ aRes # {}

(***************************************************************************)
(* Properties of the scheduler, continued (checked under Spec)             *)
(***************************************************************************)

\* C11: a PPS edge wait returns once its timeout has elapsed, also when the PPS
\* source prints no assert line or nothing at all: the wait is never still in
\* progress more than one tick (the granularity of its 10 ms sleep) after its
\* timeout.
C11_PpsWaitReturnsAtTimeout ==
    pc \in PpsPcs => waited <= PpsTimeoutTicks(caller) + 1

\* C12: a capture that ended with a non-zero return code is not fatal.  The step
\* that follows the end of the capture child writes one metadata record whose
\* arecord_rc is the child's return code and enters the GAP loop at its first
\* iteration; nothing of the return code is kept beyond that record, so GAP and
\* the next iteration run as after a successful capture.
C12_FailedCaptureNotFatal ==
    [][(pc = "capturing" /\ child = "exited" /\ pc' # pc) =>
          /\ pc' = "gap_check"
          /\ gapI' = 0
          /\ childRc' = {}
          /\ lastMeta' # {}
          /\ \A m \in lastMeta' : {m.arecord_rc} = childRc]_vars

\* a capture that failed has been stored with its return code and the GAP loop
\* has been entered
C12_Witness ==
    /\ pc = "gap_check"
    /\ gapI = 0
    /\ \E m \in lastMeta : m.arecord_rc = 1

(***************************************************************************)
(* Properties of the analysis command line (checked under SpecBatch)       *)
(***************************************************************************)
\* the items analyze_multiple_files can produce an alignment for
WellFormed(it) ==
    it.json_exists /\ it.wav_ok /\ it.json_ok /\ it.has_pps /\ it.pps_complete

Appended(i) == \E k \in 1 .. Len(alignments) : alignments[k] = i

\* C13: a batch run never aborts; when it has returned, every item with a
\* missing or malformed input (no metadata file, unreadable audio, metadata
\* without pps_timing or with an incomplete pps_timing record) was reported
\* and skipped, every other item is in the summary, and the summary counts
\* exactly those.
C13_BatchSkipsMalformed ==
    cArg = "dir" =>
        /\ bPc # "raised"
        /\ bPc = "returned" =>
              /\ \A i \in 1 .. Len(bItems) :
                     IF WellFormed(bItems[i])
                       THEN Appended(i) /\ i \notin bReported
                       ELSE i \in bReported /\ ~Appended(i)
              /\ alignments # << >> => bSummary = {Len(alignments)}

\* C14: the exit status is 1 when no usable path is given, when the .json next
\* to the .wav file is missing and when the audio file is unreadable, and it
\* is 0 for a .wav file only when the analysis of that file succeeded.
C14_ExitCodes ==
    cExit # {} =>
        /\ cArg \in {"none", "invalid"} => cExit = {1}
        /\ cArg = "wav" /\ ~bItems[1].json_exists => cExit = {1}
        /\ cArg = "wav" /\ ~bItems[1].wav_ok => cExit = {1}
        /\ cArg = "wav" /\ cExit = {0} => WellFormed(bItems[1])

(***************************************************************************)
(* Properties of the segment files (checked under SpecSegment)             *)
(***************************************************************************)

\* C15: when record_once has returned, the segment has exactly one audio file
\* and one metadata file, both named after one stem, and that stem is the
\* second of the utc_start stored in the metadata.
C15_OneStemIsUtcStart ==
    fPc = "gap" =>
        LET ws == {w \in fWavs : w.seg = fSeg}
            ms == {m \in fMetas : m.seg = fSeg}
        IN  /\ Cardinality(ws) = 1
            /\ Cardinality(ms) = 1
            /\ \A w \in ws : \A m \in ms : w.stem = m.stem /\ m.utc_start = m.stem

\* C16: the recorder never overwrites the audio or metadata file of a segment
\* stored before (a segment whose stamp is that of a stored segment is fatal
\* instead).
C16_NeverOverwrites == fLost = {}

\* C17: at every instant a metadata path either does not exist or holds the
\* complete record, and no reader has loaded an incomplete one.
C17_MetadataNeverPartial ==
    /\ \A m \in fMetas : m.complete
    /\ fSeen # "partial"

(***************************************************************************)
(* Order and timing of the scheduler (checked under Spec)                  *)
(***************************************************************************)
\* the scheduler state of the specification, with the steps of ALIGN and of
\* the loop kept apart
Stage(p, c) ==
    CASE p = "init" -> "INIT"
      [] p = "wait_sync" -> "WAIT_SYNC"
      [] p \in PpsPcs -> IF c = "align" THEN "ALIGN_PPS" ELSE "REC_PPS"
      [] p = "align_sleep" -> "ALIGN_SLEEP"
      [] p = "loop_check" -> "LOOP"
      [] p = "night_eval" -> "EVAL"
      [] p = "capturing" -> "RECORDING"
      [] p \in {"gap_check", "gap_sleep"} -> "GAP"
      [] p \in {"idle_sleep", "idle_sleep1"} -> "IDLE"
      [] OTHER -> "SHUTDOWN"

StageOrder ==
    { <<"INIT", "WAIT_SYNC">>, <<"WAIT_SYNC", "ALIGN_PPS">>,
      <<"ALIGN_PPS", "ALIGN_SLEEP">>, <<"ALIGN_SLEEP", "LOOP">>,
      <<"LOOP", "EVAL">>, <<"LOOP", "SHUTDOWN">>,
      <<"EVAL", "REC_PPS">>, <<"EVAL", "IDLE">>,
      <<"REC_PPS", "RECORDING">>, <<"RECORDING", "GAP">>,
      <<"GAP", "LOOP">>, <<"IDLE", "LOOP">> }

\* C18: the scheduler moves INIT -> WAIT_SYNC -> ALIGN (PPS wait, then sleep
\* to the minute) -> loop, and in the loop from the window evaluation to the
\* PPS wait of the segment exactly when the local time is inside the night
\* window, to IDLE exactly when it is not; a capture child is started only on
\* the step that ends that PPS wait.  Hence no capture before the gate and the
\* ALIGN step are over, and none in an iteration whose evaluation is false.
C18_StageOrder ==
    [][LET a == Stage(pc, caller)
           b == Stage(pc', caller')
       IN  /\ a # b => <<a, b>> \in StageOrder
           /\ (a = "EVAL" /\ b = "REC_PPS") => WindowPolicy(now_local, NightWindow)
           /\ (a = "EVAL" /\ b = "IDLE") => ~WindowPolicy(now_local, NightWindow)
           /\ alive' > alive => (a = "REC_PPS" /\ b = "RECORDING")]_vars

\* a capture has just been launched, inside the night window
C18_Witness ==
    /\ pc = "capturing"
    /\ child = "running"
    /\ recElapsed = 0
    /\ WindowPolicy(now_local, NightWindow)

\* C19: at most one capture child exists at any time, and one exists only
\* while the scheduler is blocked in proc.wait(): none during the GAP pause,
\* the PPS wait of the next segment or any other step.
C19_OneCaptureInFlight ==
    /\ alive <= 1
    /\ pc # "capturing" => alive = 0

\* the capture has run its whole duration with the scheduler still waiting
C19_Witness ==
    /\ pc = "capturing"
    /\ alive = 1
    /\ recElapsed = RecTicks

\* C20: sleep_to_next_full_minute_utc asks for 60 s minus the time into the
\* minute, an amount in (0, 60] that is the full 60 s on a minute boundary;
\* the sleep of the IDLE branch ends on the minute boundary and the one-second
\* sleep after it one second later, and only then the loop test follows.
C20_SleepToMinute ==
    [][/\ (pc' \in {"align_sleep", "idle_sleep"} /\ pc' # pc) =>
             /\ sleepLeft' = MinuteTicks - secs
             /\ sleepLeft' \in 1 .. MinuteTicks
             /\ secs = 0 => sleepLeft' = MinuteTicks
       /\ (pc = "idle_sleep" /\ pc' # pc) =>
             /\ pc' = "idle_sleep1"
             /\ secs = 0
             /\ sleepLeft' = TicksPerSec
       /\ (pc = "idle_sleep1" /\ pc' # pc) =>
             /\ pc' = "loop_check"
             /\ secs = TicksPerSec]_vars

\* the IDLE branch called the sleep exactly on a minute boundary
C20_Witness ==
    /\ pc = "idle_sleep"
    /\ secs = 0
    /\ sleepLeft = MinuteTicks
====
